---------------------------- MODULE Spec2Model ----------------------------
(***************************************************************************)
(* A model of src/singleton.cpp: class Singleton, its eagerly initialized  *)
(* static member Singleton::instance, the accessor GetInstance() and the   *)
(* deleted copy/move members, together with the caller code (a main        *)
(* thread and worker threads it spawns) that uses the class.               *)
(*                                                                         *)
(* A run of the model is: the caller program is built (a program that uses *)
(* a deleted or inaccessible member is rejected and never runs); the image *)
(* is loaded and Singleton::instance is initialized statically; the other  *)
(* static objects are initialized dynamically on the main thread, which    *)
(* may already call GetInstance(); main() starts and spawns workers; every *)
(* started thread calls GetInstance() and records the address it got.      *)
(*                                                                         *)
(* Singleton has a trivial destructor, so nothing happens to the object at *)
(* exit; the model stops at the end of the callers' work.                  *)
(***************************************************************************)
EXTENDS Naturals, FiniteSets

\* Worker threads spawned by main(); thread 0 is the main thread.
NumWorkers == 3
\* Calls of GetInstance() each thread makes at most.
MaxCalls == 2

Threads == 0 .. NumWorkers
MainThread == 0

\* The null pointer value of Singleton*.
NullAddr == 0
\* &Singleton::instance: fixed by the linker, the same in every run.
InstanceAddr == 1

VARIABLES
    phase,          \* "build", "rejected", "load", "dyninit", "main"
    program,        \* the operations of Singleton the caller code uses
    lifecycle,      \* "Uninitialized" or "Ready"
    instances,      \* addresses at which a Singleton object lives
    constructions,  \* how many Singleton objects have been brought to life
    started,        \* the threads that run
    pc,             \* per thread: "idle", "calling", "returned"
    ret,            \* per thread: the address its last call returned
    calls,          \* per thread: completed calls
    seen,           \* the shared set of recorded addresses
    lazyGuard,      \* guard of the lazy variant: "uninit", "initializing", "done"
    lazyInstances,  \* the lazy variant's Singleton objects
    lazyConstructions,
    lazyPc,         \* per thread, in the lazy variant
    lazyRet

eagerVars == <<phase, program, lifecycle, instances, constructions,
               started, pc, ret, calls, seen>>
lazyVars == <<lazyGuard, lazyInstances, lazyConstructions, lazyPc, lazyRet>>
vars == <<phase, program, lifecycle, instances, constructions,
          started, pc, ret, calls, seen,
          lazyGuard, lazyInstances, lazyConstructions, lazyPc, lazyRet>>

----------------------------------------------------------------------------
(* The class's members, as caller code sees them.                          *)

\* The copy and move members, all four declared "= delete".
DupOps == {"CopyConstruct", "CopyAssign", "MoveConstruct", "MoveAssign"}

\* Everything caller code could try to do with the class.
CallerOps == {"GetInstance", "DefaultConstruct"} \cup DupOps

\* As if "Singleton(Singleton&&) = delete;" had been forgotten.
MemberNoMoveDelete(op) ==
    CASE op = "GetInstance" -> "public"
      [] op = "DefaultConstruct" -> "private"
      [] op = "MoveConstruct" -> "public"
      [] OTHER -> "deleted"

\* As if the default constructor had been left public.
MemberPublicCtor(op) ==
    CASE op = "GetInstance" -> "public"
      [] op = "DefaultConstruct" -> "public"
      [] OTHER -> "deleted"

\* How each member is declared: GetInstance is public, the four copy/move
\* members are deleted, the default constructor is private.
Member(op) ==
    CASE op = "GetInstance" -> "public"
      [] op = "DefaultConstruct" -> "private"
      [] OTHER -> "deleted"

\* A program is ill-formed when it uses a deleted or an inaccessible member.
Rejected(U) == \E op \in U : Member(op) # "public"

\* An address no object of the set lives at.
NewAddr(S) == CHOOSE a \in 1 .. (Cardinality(S) + 2) : a \notin S /\ a # InstanceAddr

----------------------------------------------------------------------------
Init ==
    /\ phase = "build"
    /\ program = {}
    /\ lifecycle = "Uninitialized"
    /\ instances = {}
    /\ constructions = 0
    /\ started = {}
    /\ pc = [t \in Threads |-> "idle"]
    /\ ret = [t \in Threads |-> NullAddr]
    /\ calls = [t \in Threads |-> 0]
    /\ seen = {}
    /\ lazyGuard = "uninit"
    /\ lazyInstances = {}
    /\ lazyConstructions = 0
    /\ lazyPc = [t \in Threads |-> "idle"]
    /\ lazyRet = [t \in Threads |-> NullAddr]

\* The caller code, using the operations U, is compiled against the class.
Build ==
    /\ phase = "build"
    /\ \E U \in SUBSET CallerOps :
         /\ program' = U
         /\ phase' = IF Rejected(U) THEN "rejected" ELSE "load"
    /\ UNCHANGED <<lifecycle, instances, constructions, started, pc, ret,
                   calls, seen>>
    /\ UNCHANGED lazyVars

\* As if the object were constructed on first use instead of at load time.
StaticInitDeferred ==
    /\ phase = "load"
    /\ phase' = "dyninit"
    /\ started' = {MainThread}
    /\ UNCHANGED <<program, lifecycle, instances, constructions, pc, ret,
                   calls, seen>>
    /\ UNCHANGED lazyVars

\* "Singleton Singleton::instance;" with a trivial default constructor:
\* static initialization, done when the image is loaded and before any
\* dynamic initialization or any other code of the program runs.
StaticInit ==
    /\ phase = "load"
    /\ lifecycle' = "Ready"
    /\ instances' = instances \cup {InstanceAddr}
    /\ constructions' = constructions + 1
    /\ phase' = "dyninit"
    /\ started' = {MainThread}
    /\ UNCHANGED <<program, pc, ret, calls, seen>>
    /\ UNCHANGED lazyVars

\* Dynamic initialization of the other static objects is over; main() runs.
EnterMain ==
    /\ phase = "dyninit"
    /\ pc[MainThread] = "idle"
    /\ phase' = "main"
    /\ UNCHANGED <<program, lifecycle, instances, constructions, started, pc,
                   ret, calls, seen>>
    /\ UNCHANGED lazyVars

\* main() starts a worker thread.
Spawn(t) ==
    /\ phase = "main"
    /\ t \in Threads \ started
    /\ started' = started \cup {t}
    /\ UNCHANGED <<phase, program, lifecycle, instances, constructions, pc,
                   ret, calls, seen>>
    /\ UNCHANGED lazyVars

\* A running thread uses one of the operations its program was built with.
\* Only GetInstance() has a body in the class; the copy/move members and the
\* default constructor are shown with the effect they would have on the set
\* of objects if a program using them were ever built.
Invoke(t) ==
    /\ phase \in {"dyninit", "main"}
    /\ t \in started
    /\ pc[t] = "idle"
    /\ calls[t] < MaxCalls
    /\ \E op \in program :
         IF op = "GetInstance"
         THEN /\ pc' = [pc EXCEPT ![t] = "calling"]
              /\ UNCHANGED <<instances, constructions, calls>>
         ELSE IF op \in {"CopyConstruct", "MoveConstruct", "DefaultConstruct"}
         THEN /\ instances' = instances \cup {NewAddr(instances)}
              /\ constructions' = constructions + 1
              /\ calls' = [calls EXCEPT ![t] = @ + 1]
              /\ UNCHANGED pc
         ELSE \* an assignment writes into an object that already exists
              /\ calls' = [calls EXCEPT ![t] = @ + 1]
              /\ UNCHANGED <<pc, instances, constructions>>
    /\ UNCHANGED <<phase, program, lifecycle, started, ret, seen>>
    /\ UNCHANGED lazyVars

----------------------------------------------------------------------------
(* static inline Singleton* GetInstance() noexcept { return &instance; }   *)

\* As if the accessor were written "return new Singleton;".
GetInstanceNew(t) ==
    /\ pc[t] = "calling"
    /\ instances' = instances \cup {NewAddr(instances)}
    /\ constructions' = constructions + 1
    /\ ret' = [ret EXCEPT ![t] = NewAddr(instances)]
    /\ pc' = [pc EXCEPT ![t] = "returned"]
    /\ UNCHANGED <<phase, program, lifecycle, started, calls, seen>>
    /\ UNCHANGED lazyVars

\* As if the accessor moved the object to new storage on every call.
GetInstanceRelocate(t) ==
    /\ pc[t] = "calling"
    /\ instances' = {NewAddr(instances)}
    /\ ret' = [ret EXCEPT ![t] = NewAddr(instances)]
    /\ pc' = [pc EXCEPT ![t] = "returned"]
    /\ UNCHANGED <<phase, program, lifecycle, constructions, started, calls,
                   seen>>
    /\ UNCHANGED lazyVars

\* As if the accessor constructed the object again, in place, on every call.
GetInstanceReinit(t) ==
    /\ pc[t] = "calling"
    /\ constructions' = constructions + 1
    /\ ret' = [ret EXCEPT ![t] = InstanceAddr]
    /\ pc' = [pc EXCEPT ![t] = "returned"]
    /\ UNCHANGED <<phase, program, lifecycle, instances, started, calls,
                   seen>>
    /\ UNCHANGED lazyVars

\* As if the accessor returned a pointer member that was never set.
GetInstanceNull(t) ==
    /\ pc[t] = "calling"
    /\ ret' = [ret EXCEPT ![t] = NullAddr]
    /\ pc' = [pc EXCEPT ![t] = "returned"]
    /\ UNCHANGED <<phase, program, lifecycle, instances, constructions,
                   started, calls, seen>>
    /\ UNCHANGED lazyVars

\* As if the accessor took a lock that another caller may hold.
GetInstanceLocked(t) ==
    /\ pc[t] = "calling"
    /\ \A u \in Threads \ {t} : pc[u] # "calling"
    /\ ret' = [ret EXCEPT ![t] = InstanceAddr]
    /\ pc' = [pc EXCEPT ![t] = "returned"]
    /\ UNCHANGED <<phase, program, lifecycle, instances, constructions,
                   started, calls, seen>>
    /\ UNCHANGED lazyVars

\* The accessor: one load of the constant address, no test, no write to the
\* object or to anything shared; noexcept, so it cannot leave by an exception.
GetInstance(t) ==
    /\ pc[t] = "calling"
    /\ ret' = [ret EXCEPT ![t] = InstanceAddr]
    /\ pc' = [pc EXCEPT ![t] = "returned"]
    /\ UNCHANGED <<phase, program, lifecycle, instances, constructions,
                   started, calls, seen>>
    /\ UNCHANGED lazyVars

\* The caller stores the address it got into the shared set.
Record(t) ==
    /\ pc[t] = "returned"
    /\ seen' = seen \cup {ret[t]}
    /\ calls' = [calls EXCEPT ![t] = @ + 1]
    /\ pc' = [pc EXCEPT ![t] = "idle"]
    /\ UNCHANGED <<phase, program, lifecycle, instances, constructions,
                   started, ret>>
    /\ UNCHANGED lazyVars

Next ==
    \/ Build
    \/ StaticInit
    \/ EnterMain
    \/ \E t \in Threads : Spawn(t)
    \/ \E t \in Threads : Invoke(t)
    \/ \E t \in Threads : GetInstance(t)
    \/ \E t \in Threads : Record(t)

Spec == Init /\ [][Next]_vars

\* A thread that is inside GetInstance() gets to take its next step.
FairSpec == Spec /\ \A t \in Threads : WF_vars(GetInstance(t))

----------------------------------------------------------------------------
(* The lazy variant the README sets the class against:                     *)
(*     static Singleton& GetInstance() {                                   *)
(*         static Singleton instance;  // thread-safe init check here      *)
(*         return instance;                                                *)
(*     }                                                                   *)
(* It is run side by side with the eager accessor: every call a thread     *)
(* makes is made to both, and the thread goes on when both have returned.  *)

\* The function-local static lives in static storage too; the model gives
\* it the address of Singleton::instance so that results compare by value.
LazyInstanceAddr == InstanceAddr

\* A running thread calls GetInstance() of both variants.
CallBoth(t) ==
    /\ phase \in {"dyninit", "main"}
    /\ t \in started
    /\ "GetInstance" \in program
    /\ pc[t] = "idle"
    /\ lazyPc[t] = "idle"
    /\ calls[t] < MaxCalls
    /\ pc' = [pc EXCEPT ![t] = "calling"]
    /\ lazyPc' = [lazyPc EXCEPT ![t] = "check"]
    /\ UNCHANGED <<phase, program, lifecycle, instances, constructions,
                   started, ret, calls, seen>>
    /\ UNCHANGED <<lazyGuard, lazyInstances, lazyConstructions, lazyRet>>

\* The hidden test of the guard variable: done, return the address; not
\* begun, take the guard and go on to construct; being initialized by
\* another thread, wait.
LazyCheckGuard(t) ==
    /\ lazyPc[t] = "check"
    /\ lazyGuard # "initializing"
    /\ IF lazyGuard = "done"
       THEN /\ lazyRet' = [lazyRet EXCEPT ![t] = LazyInstanceAddr]
            /\ lazyPc' = [lazyPc EXCEPT ![t] = "returned"]
            /\ UNCHANGED lazyGuard
       ELSE /\ lazyGuard' = "initializing"
            /\ lazyPc' = [lazyPc EXCEPT ![t] = "construct"]
            /\ UNCHANGED lazyRet
    /\ UNCHANGED <<lazyInstances, lazyConstructions>>
    /\ UNCHANGED eagerVars

\* The thread that took the guard constructs the object, releases the guard
\* and returns.
LazyConstruct(t) ==
    /\ lazyPc[t] = "construct"
    /\ lazyInstances' = lazyInstances \cup {LazyInstanceAddr}
    /\ lazyConstructions' = lazyConstructions + 1
    /\ lazyGuard' = "done"
    /\ lazyRet' = [lazyRet EXCEPT ![t] = LazyInstanceAddr]
    /\ lazyPc' = [lazyPc EXCEPT ![t] = "returned"]
    /\ UNCHANGED eagerVars

\* Both calls have returned; the caller records the eager result.
RecordBoth(t) ==
    /\ pc[t] = "returned"
    /\ lazyPc[t] = "returned"
    /\ seen' = seen \cup {ret[t]}
    /\ calls' = [calls EXCEPT ![t] = @ + 1]
    /\ pc' = [pc EXCEPT ![t] = "idle"]
    /\ lazyPc' = [lazyPc EXCEPT ![t] = "idle"]
    /\ UNCHANGED <<phase, program, lifecycle, instances, constructions,
                   started, ret>>
    /\ UNCHANGED <<lazyGuard, lazyInstances, lazyConstructions, lazyRet>>

NextEquiv ==
    \/ Build
    \/ StaticInit
    \/ EnterMain
    \/ \E t \in Threads : Spawn(t)
    \/ \E t \in Threads : CallBoth(t)
    \/ \E t \in Threads : GetInstance(t)
    \/ \E t \in Threads : LazyCheckGuard(t)
    \/ \E t \in Threads : LazyConstruct(t)
    \/ \E t \in Threads : RecordBoth(t)

EquivSpec == Init /\ [][NextEquiv]_vars

----------------------------------------------------------------------------
(* Properties                                                              *)

\* Every address a call has returned so far: held by a thread or recorded.
Results == seen \cup {ret[t] : t \in {u \in Threads : pc[u] = "returned"}}

\* The program runs: it was built, loaded and statically initialized.
Running == phase \in {"dyninit", "main"}

\* C1: any two calls of GetInstance(), by the same thread or by different
\* threads, in any interleaving, return the identical address; the set of
\* addresses the threads record never holds more than one address.
C1_Uniqueness ==
    /\ \A t, u \in Threads :
         (pc[t] = "returned" /\ pc[u] = "returned") => ret[t] = ret[u]
    /\ \A t \in Threads : \A a \in seen :
         pc[t] = "returned" => ret[t] = a
    /\ Cardinality(Results) <= 1
    /\ (\E t \in Threads : calls[t] > 0) => Cardinality(seen) = 1

\* Every thread has made all its calls and one address was recorded.
C1_Witness ==
    /\ \A t \in Threads : calls[t] = MaxCalls
    /\ Cardinality(seen) = 1

C3_NoCopyNoMove ==
    /\ (program \cap DupOps # {}) => phase = "rejected"
    /\ (phase \in {"load", "dyninit", "main"}) => program \cap DupOps = {}
    /\ instances \subseteq {InstanceAddr}

\* A program using GetInstance() and all four copy/move members was built
\* and rejected.
C3_Witness ==
    /\ phase = "rejected"
    /\ program = DupOps \cup {"GetInstance"}
    /\ instances = {}

\* C4: no call of GetInstance() sees the holder Uninitialized: whenever a
\* thread is inside a call or holds its result, also during the dynamic
\* initialization of other static objects before main(), the object is
\* constructed and the address returned is the address of that live object.
C4_InitBeforeAccess ==
    \A t \in Threads :
        /\ pc[t] \in {"calling", "returned"} =>
               (lifecycle = "Ready" /\ InstanceAddr \in instances)
        /\ pc[t] = "returned" => ret[t] \in instances

\* The main thread called GetInstance() before main() began, with no other
\* thread started, and holds the result.
C4_Witness ==
    /\ phase = "dyninit"
    /\ started = {MainThread}
    /\ pc[MainThread] = "returned"
    /\ calls[MainThread] = 0
    /\ ret[MainThread] = InstanceAddr

\* C5: GetInstance() never fails: a thread is only ever idle, inside a call
\* or returned from one (never in an error state), and every call, the
\* first one and concurrent ones included, returns a non-null address.
C5_Infallible ==
    \A t \in Threads :
        /\ pc[t] \in {"idle", "calling", "returned"}
        /\ pc[t] = "returned" => ret[t] # NullAddr

\* All threads made their first call concurrently and all have returned.
C5_Witness ==
    /\ \A t \in Threads : pc[t] = "returned" /\ calls[t] = 0
    /\ seen = {}

\* C6: a step in which a thread's call of GetInstance() returns changes
\* nothing but that thread's position and result: the lifecycle state, the
\* set of objects (nothing is allocated), the construction count, the
\* recorded addresses, the guard of the lazy variant and every other
\* thread's position and result stay as they were.
C6_SideEffectFree ==
    [][\A t \in Threads :
          (pc[t] = "calling" /\ pc'[t] = "returned") =>
             /\ UNCHANGED <<phase, program, lifecycle, instances,
                            constructions, started, calls, seen>>
             /\ UNCHANGED lazyVars
             /\ \A u \in Threads \ {t} :
                    pc'[u] = pc[u] /\ ret'[u] = ret[u]]_vars

\* A call has returned while another thread is inside a call and a third
\* has already recorded a result.
C6_Witness ==
    /\ \E t, u \in Threads :
          /\ t # u
          /\ pc[t] = "returned"
          /\ pc[u] = "calling"
    /\ seen = {InstanceAddr}
    /\ instances = {InstanceAddr}

\* C7: GetInstance() never blocks: a thread inside a call can always take
\* its step, whatever the other threads are doing; that step returns; and,
\* given only that the thread itself is scheduled, every started call
\* returns.
C7_WaitFree ==
    /\ [](\A t \in Threads : pc[t] = "calling" => ENABLED GetInstance(t))
    /\ [][\A t \in Threads :
            (pc[t] = "calling" /\ pc'[t] # "calling") =>
                pc'[t] = "returned"]_vars
    /\ \A t \in Threads : (pc[t] = "calling") ~> (pc[t] = "returned")

\* Every thread is inside a call at the same time.
C7_Witness ==
    /\ started = Threads
    /\ \A t \in Threads : pc[t] = "calling"

\* C8: the lifecycle is Uninitialized or Ready; it changes only from
\* Uninitialized to Ready, at load time; once Ready it stays Ready and the
\* object is not constructed again, whatever calls are made.
C8_Lifecycle ==
    /\ [](lifecycle \in {"Uninitialized", "Ready"})
    /\ [][lifecycle' # lifecycle =>
            (lifecycle = "Uninitialized" /\ lifecycle' = "Ready"
                /\ phase = "load")]_vars
    /\ [][lifecycle = "Ready" =>
            (lifecycle' = "Ready" /\ constructions' = constructions)]_vars

\* The holder is Ready after a thread completed all its calls.
C8_Witness ==
    /\ lifecycle = "Ready"
    /\ constructions = 1
    /\ calls[MainThread] = MaxCalls
    /\ \E t \in Threads \ {MainThread} : calls[t] = MaxCalls

\* C9: once the holder is Ready the object lives at the address it had
\* when it became Ready, no step changes where it lives, and every address
\* a call returned earlier is still the address of the live object.
C9_StableAddress ==
    /\ [](lifecycle = "Ready" =>
             /\ instances = {InstanceAddr}
             /\ Results \subseteq instances
             /\ \A t \in Threads : ret[t] # NullAddr => ret[t] \in instances)
    /\ [][lifecycle = "Ready" => instances' = instances]_vars

\* A thread still holds the address of an earlier call while another
\* thread is inside a later call.
C9_Witness ==
    \E t, u \in Threads :
        /\ t # u
        /\ pc[t] = "idle"
        /\ calls[t] > 0
        /\ ret[t] = InstanceAddr
        /\ pc[u] = "calling"
        /\ calls[u] > 0

\* The addresses the calls of each variant have returned so far.
EagerResults == {ret[t] : t \in Threads} \ {NullAddr}
LazyResults == {lazyRet[t] : t \in Threads} \ {NullAddr}

\* C10: run side by side on the same calls, the eager accessor and the
\* lazy guarded one are indistinguishable to the callers: each call gets
\* the same address from both, each variant returns one single address to
\* all calls, and each has constructed its object exactly once by the time
\* a call returns (and never more than once).
C10_EagerEquivLazy ==
    /\ \A t \in Threads :
         (pc[t] = "returned" /\ lazyPc[t] = "returned") => ret[t] = lazyRet[t]
    /\ Cardinality(EagerResults) <= 1
    /\ Cardinality(LazyResults) <= 1
    /\ (EagerResults # {} /\ LazyResults # {}) => EagerResults = LazyResults
    /\ constructions <= 1
    /\ lazyConstructions <= 1
    /\ EagerResults # {} => (constructions = 1 /\ Cardinality(instances) = 1)
    /\ LazyResults # {} =>
         (lazyConstructions = 1 /\ Cardinality(lazyInstances) = 1)

\* Two threads have both variants' results in hand, one of them having
\* waited at the guard while the other constructed the lazy object.
C10_Witness ==
    /\ lazyGuard = "done"
    /\ \E t, u \in Threads :
          /\ t # u
          /\ pc[t] = "returned" /\ lazyPc[t] = "returned"
          /\ pc[u] = "returned" /\ lazyPc[u] = "returned"
          /\ calls[t] = 0 /\ calls[u] = 0
          /\ ret[t] = lazyRet[u]

====
